---- MODULE Spec2Model ----
(***************************************************************************)
(* Model of src/main.py: nine FastAPI handlers that proxy the Scryfall     *)
(* REST API.  Every handler opens its own httpx.AsyncClient, sleeps in     *)
(* rate_limit(), issues one GET (get_card_rulings: two), and maps the      *)
(* upstream answer into a pydantic output object inside a try/except.      *)
(*                                                                         *)
(* JSON objects are functions from keys to values: an absent key is a key  *)
(* outside the DOMAIN.  Python's None is the token None.  JSON numbers     *)
(* that are only passed through (cmc, mana_value) are opaque tokens.       *)
(***************************************************************************)
EXTENDS Integers, Sequences, FiniteSets, TLC

\* Number of call slots the dispatcher runs concurrently.
MaxCalls == 2
\* Longest "data" list an upstream list answer carries.
MaxList == 2
\* asyncio.sleep(0.075): the delay of rate_limit, in milliseconds.
RateLimitDelay == 75

CallIds == 1..MaxCalls

None == "<None>"
API == "https://api.scryfall.com"

Ops == {"search_card", "search_cards", "get_card_rulings", "get_all_sets",
        "get_card_symbols", "get_random_card", "get_set_details",
        "get_catalog", "get_exact_card"}

(***************************************************************************)
(* Python helpers                                                          *)
(***************************************************************************)
\* dict.get(k, default)
Get(d, k, default) == IF k \in DOMAIN d THEN d[k] ELSE default

\* d.get("image_uris", {}).get("normal", default)
GetImage(d, default) ==
    IF "image_uris" \in DOMAIN d THEN Get(d["image_uris"], "normal", default)
    ELSE default

\* the outcome of a block of code: a value, or a raised exception (its str())
Ret(v) == [raised |-> FALSE, value |-> v, exc |-> ""]
Raise(e) == [raised |-> TRUE, value |-> None, exc |-> e]

\* str(KeyError(k))
KeyError(k) == "'" \o k \o "'"
\* str() of json.JSONDecodeError for a body that is not JSON
JSONDecodeError == "Expecting value: line 1 column 1 (char 0)"

\* str() of the httpx.HTTPStatusError that raise_for_status raises
HTTPStatusError(status) ==
    CASE status = 404 -> "Client error '404 Not Found'"
      [] status = 429 -> "Client error '429 Too Many Requests'"
      [] status = 500 -> "Server error '500 Internal Server Error'"
      [] OTHER -> "Status error"

\* response.raise_for_status(): raises for 4xx and 5xx
RaisesForStatus(resp) == resp.status >= 400

\* response.json(): raises when the body is not JSON
JsonFails(resp) == ~resp.valid

\* first key of ks (a sequence, in evaluation order) that d lacks, or None
RECURSIVE FirstMissing(_, _)
FirstMissing(d, ks) ==
    IF ks = <<>> THEN None
    ELSE IF Head(ks) \notin DOMAIN d THEN Head(ks)
    ELSE FirstMissing(d, Tail(ks))

(***************************************************************************)
(* Upstream answers                                                        *)
(***************************************************************************)
Response(status, valid, data) ==
    [kind |-> "response", status |-> status, valid |-> valid, data |-> data,
     exc |-> ""]
\* client.get raised (timeout, connection failure)
Failure(e) ==
    [kind |-> "raise", status |-> 0, valid |-> FALSE, data |-> [object |-> "none"],
     exc |-> e]

\* Scryfall's error object, sent with 4xx/5xx answers
ErrorObject == [object |-> "error", details |-> "upstream error"]
NoBody == [object |-> "none"]

TransportErrors == {"ReadTimeout", "ConnectError"}
ErrorStatuses == {404, 429, 500}

\* the answers that do not depend on the resource asked for
CommonOutcomes ==
    {Failure(e) : e \in TransportErrors}
    \cup {Response(s, TRUE, ErrorObject) : s \in ErrorStatuses}
    \cup {Response(s, FALSE, NoBody) : s \in ErrorStatuses \cup {200}}

Restrict(d, keys) == [k \in keys |-> d[k]]

RECURSIVE SeqsUpTo(_, _)
\* all sequences over S of length at most n
SeqsUpTo(S, n) ==
    IF n = 0 THEN {<<>>}
    ELSE LET shorter == SeqsUpTo(S, n - 1)
         IN shorter \cup {Append(l, x) : l \in {m \in shorter : Len(m) = n - 1}, x \in S}

\* ---- card objects (cards/named, cards/random, cards/{id}, cards/search) ----
FullCard ==
    [object |-> "card", name |-> "Lightning Bolt", type_line |-> "Instant",
     oracle_text |-> "Deals 3 damage", mana_cost |-> "{R}", cmc |-> "1.0",
     image_uris |-> [small |-> "bolt-small.jpg", normal |-> "bolt.jpg"],
     id |-> "id-bolt", set_name |-> "Alpha", set |-> "lea", rarity |-> "common"]
\* a card whose image_uris has no "normal" entry
NoNormalCard == [FullCard EXCEPT !.image_uris = [small |-> "bolt-small.jpg"]]
\* the keys the handlers read with .get and a None/"" default
CardOptional == {"oracle_text", "mana_cost", "cmc", "image_uris"}
\* the keys search_card / search_cards subscript
CardSubscripted == {"name", "type_line", "id"}

\* card records: every subset of the optional keys absent
CardRecords ==
    {Restrict(base, DOMAIN base \ drop) :
        base \in {FullCard, NoNormalCard}, drop \in SUBSET CardOptional}
\* objects that are not card records: a subscripted key is absent, or no name
BrokenCards ==
    {Restrict(FullCard, DOMAIN FullCard \ {k}) : k \in CardSubscripted}
    \cup {[FullCard EXCEPT !.name = ""], [object |-> "card"]}
CardBodies == CardRecords \cup BrokenCards

IsCardRecord(d) ==
    /\ {"name", "type_line", "id"} \subseteq DOMAIN d
    /\ d["name"] # ""

CardOutcomes == CommonOutcomes \cup {Response(200, TRUE, b) : b \in CardBodies}

\* ---- list answers ----
ListCards ==
    {Restrict(FullCard, DOMAIN FullCard \ drop) : drop \in SUBSET CardOptional}
    \cup {NoNormalCard, Restrict(FullCard, DOMAIN FullCard \ {"name"})}
CardLists == SeqsUpTo(ListCards, MaxList)
SearchBodies ==
    {[object |-> "list", data |-> l, total_cards |-> Len(l) + 175, has_more |-> TRUE] :
        l \in CardLists}
    \cup {[object |-> "list", data |-> l] : l \in CardLists}
    \cup {[object |-> "list"]}
SearchOutcomes == CommonOutcomes \cup {Response(200, TRUE, b) : b \in SearchBodies}

FullRuling ==
    [object |-> "ruling", source |-> "wotc", published_at |-> "2004-10-04",
     comment |-> "It can target a planeswalker."]
RulingRecords ==
    {FullRuling, Restrict(FullRuling, {"object", "source"}), [object |-> "ruling"]}
RulingBodies ==
    {[object |-> "list", data |-> l] : l \in SeqsUpTo(RulingRecords, MaxList)}
    \cup {[object |-> "list"]}
RulingOutcomes == CommonOutcomes \cup {Response(200, TRUE, b) : b \in RulingBodies}
\* answers to the card fetch of get_card_rulings: only "name" is read
NameOutcomes ==
    CommonOutcomes
    \cup {Response(200, TRUE, b) : b \in {FullCard, [object |-> "card"]}}

FullSet ==
    [object |-> "set", code |-> "lea", name |-> "Limited Edition Alpha",
     set_type |-> "core", released_at |-> "1993-08-05", card_count |-> 295,
     id |-> "id-lea", block |-> "Core", parent_set_code |-> "par",
     digital |-> FALSE, foil_only |-> FALSE, icon_svg_uri |-> "lea.svg"]
SetOptional == {"released_at", "block", "parent_set_code", "icon_svg_uri"}
SetRecords ==
    {Restrict(FullSet, DOMAIN FullSet \ drop) : drop \in SUBSET SetOptional}
SetBodies == SetRecords \cup {[object |-> "set"]}
SetOutcomes == CommonOutcomes \cup {Response(200, TRUE, b) : b \in SetBodies}
ListSets ==
    {FullSet, Restrict(FullSet, DOMAIN FullSet \ {"released_at"}), [object |-> "set"]}
SetsBodies ==
    {[object |-> "list", data |-> l] : l \in SeqsUpTo(ListSets, MaxList)}
    \cup {[object |-> "list"]}
SetsOutcomes == CommonOutcomes \cup {Response(200, TRUE, b) : b \in SetsBodies}

FullSymbol ==
    [object |-> "card_symbol", symbol |-> "{R}", loose_variant |-> "R",
     english |-> "one red mana", transposable |-> TRUE, represents_mana |-> TRUE,
     appears_in_mana_costs |-> TRUE, mana_value |-> "1.0", colors |-> <<"R">>]
SymbolOptional == {"loose_variant", "mana_value"}
ListSymbols ==
    {Restrict(FullSymbol, DOMAIN FullSymbol \ drop) : drop \in SUBSET SymbolOptional}
    \cup {[object |-> "card_symbol"]}
SymbolsBodies ==
    {[object |-> "list", data |-> l] : l \in SeqsUpTo(ListSymbols, MaxList)}
    \cup {[object |-> "list"]}
SymbolsOutcomes == CommonOutcomes \cup {Response(200, TRUE, b) : b \in SymbolsBodies}

CatalogBodies ==
    {[object |-> "catalog", data |-> l] : l \in SeqsUpTo({"Elf", "Goblin"}, MaxList)}
    \cup {[object |-> "catalog"]}
CatalogOutcomes == CommonOutcomes \cup {Response(200, TRUE, b) : b \in CatalogBodies}

(***************************************************************************)
(* Inputs of the tools                                                     *)
(***************************************************************************)
Names == {"Bolt", "Zzz"}
NoInput == [none |-> TRUE]
NoParams == [none |-> TRUE]

\* the parameters a tool accepts, over the card/set/catalog names ns
InputsNamed(op, ns) ==
    CASE op = "search_card" -> {[name |-> n] : n \in ns}
      [] op = "search_cards" ->
            {[query |-> n, unique |-> "cards", order |-> "name", page |-> 1] : n \in ns}
      [] op = "get_card_rulings" -> {[scryfall_id |-> n] : n \in ns}
      [] op = "get_set_details" -> {[set_code |-> n] : n \in ns}
      [] op = "get_catalog" -> {[catalog_type |-> n] : n \in ns}
      [] op = "get_exact_card" ->
            {[exact_name |-> n, set_code |-> s] : n \in ns, s \in {None, "lea"}}
      [] OTHER -> {NoInput}

Inputs(op) == InputsNamed(op, Names)

(***************************************************************************)
(* try / except                                                            *)
(***************************************************************************)
\* `except Exception as e`: every exception the try body can raise is caught
ExceptException(e) == TRUE

\* try: t   except Exception as e: return sentinel
Guarded(t, sentinel) ==
    IF ~t.raised THEN t
    ELSE IF ExceptException(t.exc) THEN Ret(sentinel)
    ELSE t

\* `await client.get(...)` followed by the rest of the try body
Awaited(o, rest) == IF o.kind = "raise" THEN Raise(o.exc) ELSE rest

(***************************************************************************)
(* search_card                                                             *)
(***************************************************************************)
search_card_not_found(input_data) ==
    [name |-> "Card not found: " \o input_data.name,
     type_line |-> "Not Found",
     oracle_text |-> "No Magic: The Gathering card found with the name '"
                     \o input_data.name \o "'",
     image_url |-> ""]

\* a search_card that fills name and type_line from each other's key
search_card_try_swapped(input_data, response) ==
    IF response.status = 404 THEN Ret(search_card_not_found(input_data))
    ELSE IF JsonFails(response) THEN Raise(JSONDecodeError)
    ELSE LET data == response.data
             missing == FirstMissing(data, <<"name", "type_line">>)
         IN IF missing # None THEN Raise(KeyError(missing))
            ELSE Ret([name |-> data["type_line"],
                      type_line |-> data["name"],
                      oracle_text |-> Get(data, "oracle_text", "No oracle text available"),
                      image_url |-> GetImage(data, "")])
\* lines 159-174: the try body after the await
search_card_try(input_data, response) ==
    IF response.status = 404 THEN Ret(search_card_not_found(input_data))
    ELSE IF JsonFails(response) THEN Raise(JSONDecodeError)
    ELSE LET data == response.data
             missing == FirstMissing(data, <<"name", "type_line">>)
         IN IF missing # None THEN Raise(KeyError(missing))
            ELSE Ret([name |-> data["name"],
                      type_line |-> data["type_line"],
                      oracle_text |-> Get(data, "oracle_text", "No oracle text available"),
                      image_url |-> GetImage(data, "")])

search_card_except(input_data, e) ==
    [name |-> "Error searching for: " \o input_data.name,
     type_line |-> "Error",
     oracle_text |-> "An error occurred while searching: " \o e,
     image_url |-> ""]

search_card(input_data, o) ==
    LET t == Awaited(o, search_card_try(input_data, o))
    IN Guarded(t, search_card_except(input_data, t.exc))

(***************************************************************************)
(* search_cards                                                            *)
(***************************************************************************)
\* a variant that subscripts the optional keys instead of using .get
CardResultStrict(card_data) ==
    LET missing == FirstMissing(card_data,
                       <<"name", "type_line", "oracle_text", "mana_cost", "cmc",
                         "image_uris", "id">>)
    IN IF missing # None THEN Raise(KeyError(missing))
       ELSE Ret([name |-> card_data["name"],
                 type_line |-> card_data["type_line"],
                 oracle_text |-> card_data["oracle_text"],
                 mana_cost |-> card_data["mana_cost"],
                 cmc |-> card_data["cmc"],
                 image_url |-> GetImage(card_data, None),
                 scryfall_id |-> card_data["id"]])
\* CardResult(name=card_data["name"], ..., scryfall_id=card_data["id"])
CardResult(card_data) ==
    LET missing == FirstMissing(card_data, <<"name", "type_line", "id">>)
    IN IF missing # None THEN Raise(KeyError(missing))
       ELSE Ret([name |-> card_data["name"],
                 type_line |-> card_data["type_line"],
                 oracle_text |-> Get(card_data, "oracle_text", None),
                 mana_cost |-> Get(card_data, "mana_cost", None),
                 cmc |-> Get(card_data, "cmc", None),
                 image_url |-> GetImage(card_data, None),
                 scryfall_id |-> card_data["id"]])

RECURSIVE CardResults(_)
\* the for loop over data.get("data", []): stops at the first exception
CardResults(l) ==
    IF l = <<>> THEN Ret(<<>>)
    ELSE LET first == CardResult(Head(l))
         IN IF first.raised THEN first
            ELSE LET rest == CardResults(Tail(l))
                 IN IF rest.raised THEN rest
                    ELSE Ret(<<first.value>> \o rest.value)

search_cards_params(input_data) ==
    [q |-> input_data.query, unique |-> input_data.unique,
     order |-> input_data.order, page |-> input_data.page]

search_cards_empty == [cards |-> <<>>, total_cards |-> 0, has_more |-> FALSE]

search_cards_try(input_data, response) ==
    IF response.status = 404 THEN Ret(search_cards_empty)
    ELSE IF RaisesForStatus(response) THEN Raise(HTTPStatusError(response.status))
    ELSE IF JsonFails(response) THEN Raise(JSONDecodeError)
    ELSE LET data == response.data
             cards == CardResults(Get(data, "data", <<>>))
         IN IF cards.raised THEN cards
            ELSE Ret([cards |-> cards.value,
                      total_cards |-> Get(data, "total_cards", Len(cards.value)),
                      has_more |-> Get(data, "has_more", FALSE)])

search_cards_except(input_data, e) == search_cards_empty

search_cards(input_data, o) ==
    LET t == Awaited(o, search_cards_try(input_data, o))
    IN Guarded(t, search_cards_except(input_data, t.exc))

(***************************************************************************)
(* get_card_rulings                                                        *)
(***************************************************************************)
\* lines 253-257: the card name read from the first answer
card_name_of(card_response) ==
    IF card_response.status = 200
    THEN IF JsonFails(card_response) THEN Raise(JSONDecodeError)
         ELSE Ret(Get(card_response.data, "name", "Unknown Card"))
    ELSE Ret("Unknown Card")

RulingOf(ruling_data) ==
    [source |-> Get(ruling_data, "source", ""),
     published_at |-> Get(ruling_data, "published_at", ""),
     comment |-> Get(ruling_data, "comment", "")]

\* lines 263-285: the part of the try body after the second answer
rulings_try(input_data, card_name, rulings_response) ==
    IF rulings_response.status = 404
    THEN Ret([card_name |-> card_name, scryfall_id |-> input_data.scryfall_id,
              rulings |-> <<>>])
    ELSE IF RaisesForStatus(rulings_response)
    THEN Raise(HTTPStatusError(rulings_response.status))
    ELSE IF JsonFails(rulings_response) THEN Raise(JSONDecodeError)
    ELSE LET l == Get(rulings_response.data, "data", <<>>)
         IN Ret([card_name |-> card_name, scryfall_id |-> input_data.scryfall_id,
                 rulings |-> [i \in 1..Len(l) |-> RulingOf(l[i])]])

get_card_rulings_except(input_data, e) ==
    [card_name |-> "Error", scryfall_id |-> input_data.scryfall_id,
     rulings |-> <<[source |-> "error", published_at |-> "",
                    comment |-> "Error retrieving rulings: " \o e]>>]

\* the try body up to the second rate_limit(): the card name, or what was raised
card_fetch(o1) == Awaited(o1, card_name_of(o1))

\* the handler from its second await on
get_card_rulings_second(input_data, card_name, o2) ==
    LET t == Awaited(o2, rulings_try(input_data, card_name, o2))
    IN Guarded(t, get_card_rulings_except(input_data, t.exc))

\* the whole handler against the answers o1 (card) and o2 (rulings); o2 is not
\* asked for when the card fetch raises
get_card_rulings(input_data, o1, o2) ==
    LET t1 == card_fetch(o1)
    IN IF t1.raised THEN Guarded(t1, get_card_rulings_except(input_data, t1.exc))
       ELSE get_card_rulings_second(input_data, t1.value, o2)

(***************************************************************************)
(* get_all_sets                                                            *)
(***************************************************************************)
SetInfo(set_data) ==
    [code |-> Get(set_data, "code", ""),
     name |-> Get(set_data, "name", ""),
     set_type |-> Get(set_data, "set_type", ""),
     released_at |-> Get(set_data, "released_at", None),
     card_count |-> Get(set_data, "card_count", 0),
     scryfall_id |-> Get(set_data, "id", "")]

get_all_sets_try(input_data, response) ==
    IF RaisesForStatus(response) THEN Raise(HTTPStatusError(response.status))
    ELSE IF JsonFails(response) THEN Raise(JSONDecodeError)
    ELSE LET l == Get(response.data, "data", <<>>)
             sets == [i \in 1..Len(l) |-> SetInfo(l[i])]
         IN Ret([sets |-> sets, total_sets |-> Len(sets)])

get_all_sets_except(input_data, e) ==
    [sets |-> <<[code |-> "error", name |-> "Error retrieving sets",
                 set_type |-> "error", released_at |-> None, card_count |-> 0,
                 scryfall_id |-> ""]>>,
     total_sets |-> 0]

get_all_sets(input_data, o) ==
    LET t == Awaited(o, get_all_sets_try(input_data, o))
    IN Guarded(t, get_all_sets_except(input_data, t.exc))

(***************************************************************************)
(* get_card_symbols                                                        *)
(***************************************************************************)
CardSymbol(symbol_data) ==
    [symbol |-> Get(symbol_data, "symbol", ""),
     loose_variant |-> Get(symbol_data, "loose_variant", None),
     english |-> Get(symbol_data, "english", ""),
     transposable |-> Get(symbol_data, "transposable", FALSE),
     represents_mana |-> Get(symbol_data, "represents_mana", FALSE),
     appears_in_mana_costs |-> Get(symbol_data, "appears_in_mana_costs", FALSE),
     mana_value |-> Get(symbol_data, "mana_value", None),
     colors |-> Get(symbol_data, "colors", <<>>)]

get_card_symbols_try(input_data, response) ==
    IF RaisesForStatus(response) THEN Raise(HTTPStatusError(response.status))
    ELSE IF JsonFails(response) THEN Raise(JSONDecodeError)
    ELSE LET l == Get(response.data, "data", <<>>)
             symbols == [i \in 1..Len(l) |-> CardSymbol(l[i])]
         IN Ret([symbols |-> symbols, total_symbols |-> Len(symbols)])

get_card_symbols_except(input_data, e) == [symbols |-> <<>>, total_symbols |-> 0]

get_card_symbols(input_data, o) ==
    LET t == Awaited(o, get_card_symbols_try(input_data, o))
    IN Guarded(t, get_card_symbols_except(input_data, t.exc))

(***************************************************************************)
(* get_random_card                                                         *)
(***************************************************************************)
get_random_card_try(input_data, response) ==
    IF RaisesForStatus(response) THEN Raise(HTTPStatusError(response.status))
    ELSE IF JsonFails(response) THEN Raise(JSONDecodeError)
    ELSE LET data == response.data
         IN Ret([name |-> Get(data, "name", ""),
                 type_line |-> Get(data, "type_line", ""),
                 oracle_text |-> Get(data, "oracle_text", None),
                 mana_cost |-> Get(data, "mana_cost", None),
                 cmc |-> Get(data, "cmc", None),
                 image_url |-> GetImage(data, None),
                 scryfall_id |-> Get(data, "id", ""),
                 set_name |-> Get(data, "set_name", ""),
                 set_code |-> Get(data, "set", "")])

get_random_card_except(input_data, e) ==
    [name |-> "Error", type_line |-> "Error",
     oracle_text |-> "Error getting random card: " \o e,
     mana_cost |-> None, cmc |-> None, image_url |-> None,
     scryfall_id |-> "", set_name |-> "", set_code |-> ""]

get_random_card(input_data, o) ==
    LET t == Awaited(o, get_random_card_try(input_data, o))
    IN Guarded(t, get_random_card_except(input_data, t.exc))

(***************************************************************************)
(* get_set_details                                                         *)
(***************************************************************************)
get_set_details_not_found(input_data) ==
    [code |-> input_data.set_code, name |-> "Set not found", set_type |-> "unknown",
     released_at |-> None, card_count |-> 0, scryfall_id |-> "", block |-> None,
     parent_set_code |-> None, digital |-> FALSE, foil_only |-> FALSE,
     icon_svg_uri |-> None]

get_set_details_try(input_data, response) ==
    IF response.status = 404 THEN Ret(get_set_details_not_found(input_data))
    ELSE IF RaisesForStatus(response) THEN Raise(HTTPStatusError(response.status))
    ELSE IF JsonFails(response) THEN Raise(JSONDecodeError)
    ELSE LET data == response.data
         IN Ret([code |-> Get(data, "code", ""),
                 name |-> Get(data, "name", ""),
                 set_type |-> Get(data, "set_type", ""),
                 released_at |-> Get(data, "released_at", None),
                 card_count |-> Get(data, "card_count", 0),
                 scryfall_id |-> Get(data, "id", ""),
                 block |-> Get(data, "block", None),
                 parent_set_code |-> Get(data, "parent_set_code", None),
                 digital |-> Get(data, "digital", FALSE),
                 foil_only |-> Get(data, "foil_only", FALSE),
                 icon_svg_uri |-> Get(data, "icon_svg_uri", None)])

get_set_details_except(input_data, e) ==
    [code |-> input_data.set_code, name |-> "Error", set_type |-> "error",
     released_at |-> None, card_count |-> 0, scryfall_id |-> "", block |-> None,
     parent_set_code |-> None, digital |-> FALSE, foil_only |-> FALSE,
     icon_svg_uri |-> None]

get_set_details(input_data, o) ==
    LET t == Awaited(o, get_set_details_try(input_data, o))
    IN Guarded(t, get_set_details_except(input_data, t.exc))

(***************************************************************************)
(* get_catalog                                                             *)
(***************************************************************************)
get_catalog_empty(input_data) ==
    [catalog_type |-> input_data.catalog_type, data |-> <<>>, total_items |-> 0]

\* a get_catalog whose 404 branch hands a message back in the data list
get_catalog_try_message(input_data, response) ==
    IF response.status = 404
    THEN Ret([catalog_type |-> input_data.catalog_type,
              data |-> <<"Catalog not found">>, total_items |-> 0])
    ELSE IF RaisesForStatus(response) THEN Raise(HTTPStatusError(response.status))
    ELSE IF JsonFails(response) THEN Raise(JSONDecodeError)
    ELSE LET data == response.data
         IN Ret([catalog_type |-> input_data.catalog_type,
                 data |-> Get(data, "data", <<>>),
                 total_items |-> Len(Get(data, "data", <<>>))])
\* lines 506-520: the try body after the await
get_catalog_try(input_data, response) ==
    IF response.status = 404 THEN Ret(get_catalog_empty(input_data))
    ELSE IF RaisesForStatus(response) THEN Raise(HTTPStatusError(response.status))
    ELSE IF JsonFails(response) THEN Raise(JSONDecodeError)
    ELSE LET data == response.data
         IN Ret([catalog_type |-> input_data.catalog_type,
                 data |-> Get(data, "data", <<>>),
                 total_items |-> Len(Get(data, "data", <<>>))])

get_catalog_except(input_data, e) == get_catalog_empty(input_data)

get_catalog(input_data, o) ==
    LET t == Awaited(o, get_catalog_try(input_data, o))
    IN Guarded(t, get_catalog_except(input_data, t.exc))

(***************************************************************************)
(* get_exact_card                                                          *)
(***************************************************************************)
get_exact_card_params(input_data) ==
    IF input_data.set_code # None /\ input_data.set_code # ""
    THEN [exact |-> input_data.exact_name, set |-> input_data.set_code]
    ELSE [exact |-> input_data.exact_name]

get_exact_card_not_found(input_data) ==
    [name |-> "Card not found: " \o input_data.exact_name,
     type_line |-> "Not Found",
     oracle_text |-> "No card found with exact name '" \o input_data.exact_name \o "'",
     mana_cost |-> None, cmc |-> None, image_url |-> None, scryfall_id |-> "",
     set_name |-> "", set_code |-> "", rarity |-> ""]

\* lines 563-574: ExactCardOutput(...) of a card object
get_exact_card_output(data) ==
    [name |-> Get(data, "name", ""),
     type_line |-> Get(data, "type_line", ""),
     oracle_text |-> Get(data, "oracle_text", None),
     mana_cost |-> Get(data, "mana_cost", None),
     cmc |-> Get(data, "cmc", None),
     image_url |-> GetImage(data, None),
     scryfall_id |-> Get(data, "id", ""),
     set_name |-> Get(data, "set_name", ""),
     set_code |-> Get(data, "set", ""),
     rarity |-> Get(data, "rarity", "")]

\* a get_exact_card that calls raise_for_status() before looking for a 404
get_exact_card_try_status_first(input_data, response) ==
    IF RaisesForStatus(response) THEN Raise(HTTPStatusError(response.status))
    ELSE IF response.status = 404 THEN Ret(get_exact_card_not_found(input_data))
    ELSE IF JsonFails(response) THEN Raise(JSONDecodeError)
    ELSE Ret(get_exact_card_output(response.data))
\* lines 546-574: the try body after the await
get_exact_card_try(input_data, response) ==
    IF response.status = 404 THEN Ret(get_exact_card_not_found(input_data))
    ELSE IF RaisesForStatus(response) THEN Raise(HTTPStatusError(response.status))
    ELSE IF JsonFails(response) THEN Raise(JSONDecodeError)
    ELSE Ret(get_exact_card_output(response.data))

get_exact_card_except(input_data, e) ==
    [name |-> "Error: " \o input_data.exact_name,
     type_line |-> "Error",
     oracle_text |-> "Error retrieving card: " \o e,
     mana_cost |-> None, cmc |-> None, image_url |-> None, scryfall_id |-> "",
     set_name |-> "", set_code |-> "", rarity |-> ""]

get_exact_card(input_data, o) ==
    LET t == Awaited(o, get_exact_card_try(input_data, o))
    IN Guarded(t, get_exact_card_except(input_data, t.exc))

(***************************************************************************)
(* The handlers as the dispatcher sees them                                *)
(***************************************************************************)
\* every handler asking upstream twice, as get_card_rulings does
ProgramTwice(op) == <<"rate_limit", "get", "rate_limit", "get">>
\* the awaits of a handler's try body, in program order
Program(op) ==
    IF op = "get_card_rulings" THEN <<"rate_limit", "get", "rate_limit", "get">>
    ELSE <<"rate_limit", "get">>

\* a rate_limit that backs off after a throttling answer
rate_limit_adaptive(seen) ==
    IF \E i \in 1..Len(seen) : seen[i] = 429 THEN 2 * RateLimitDelay
    ELSE RateLimitDelay
\* rate_limit(): the delay slept, whatever statuses the call has seen so far
rate_limit(seen) == RateLimitDelay

\* the n-th client.get of a handler
Request(op, input_data, n) ==
    CASE op = "search_card" ->
            [url |-> API \o "/cards/named", params |-> [fuzzy |-> input_data.name]]
      [] op = "search_cards" ->
            [url |-> API \o "/cards/search", params |-> search_cards_params(input_data)]
      [] op = "get_card_rulings" ->
            IF n = 1
            THEN [url |-> API \o "/cards/" \o input_data.scryfall_id, params |-> NoParams]
            ELSE [url |-> API \o "/cards/" \o input_data.scryfall_id \o "/rulings",
                  params |-> NoParams]
      [] op = "get_all_sets" -> [url |-> API \o "/sets", params |-> NoParams]
      [] op = "get_card_symbols" -> [url |-> API \o "/symbology", params |-> NoParams]
      [] op = "get_random_card" -> [url |-> API \o "/cards/random", params |-> NoParams]
      [] op = "get_set_details" ->
            [url |-> API \o "/sets/" \o input_data.set_code, params |-> NoParams]
      [] op = "get_catalog" ->
            [url |-> API \o "/catalog/" \o input_data.catalog_type, params |-> NoParams]
      [] op = "get_exact_card" ->
            [url |-> API \o "/cards/named", params |-> get_exact_card_params(input_data)]

\* the try body after the answer to the handler's last client.get
Try(op, input_data, card_name, response) ==
    CASE op = "search_card" -> search_card_try(input_data, response)
      [] op = "search_cards" -> search_cards_try(input_data, response)
      [] op = "get_card_rulings" -> rulings_try(input_data, card_name, response)
      [] op = "get_all_sets" -> get_all_sets_try(input_data, response)
      [] op = "get_card_symbols" -> get_card_symbols_try(input_data, response)
      [] op = "get_random_card" -> get_random_card_try(input_data, response)
      [] op = "get_set_details" -> get_set_details_try(input_data, response)
      [] op = "get_catalog" -> get_catalog_try(input_data, response)
      [] op = "get_exact_card" -> get_exact_card_try(input_data, response)

\* the value the except clause returns
Except(op, input_data, e) ==
    CASE op = "search_card" -> search_card_except(input_data, e)
      [] op = "search_cards" -> search_cards_except(input_data, e)
      [] op = "get_card_rulings" -> get_card_rulings_except(input_data, e)
      [] op = "get_all_sets" -> get_all_sets_except(input_data, e)
      [] op = "get_card_symbols" -> get_card_symbols_except(input_data, e)
      [] op = "get_random_card" -> get_random_card_except(input_data, e)
      [] op = "get_set_details" -> get_set_details_except(input_data, e)
      [] op = "get_catalog" -> get_catalog_except(input_data, e)
      [] op = "get_exact_card" -> get_exact_card_except(input_data, e)

\* a handler that goes on to its next request although the try body raised
LeavesTryRetrying(last, t) == last
\* the handler leaves the try block after an answer: it was the answer to its
\* last client.get, or the code after the await raised
LeavesTry(last, t) == last \/ t.raised

\* one client for the whole module instead of one per call
SharedClient(c) == 1
\* `async with httpx.AsyncClient() as client`: the instance call c constructs
AsyncClient(c) == c

(***************************************************************************)
(* Upstream answers per request                                            *)
(***************************************************************************)
\* every answer the n-th request of op can get
Answers(op, n) ==
    CASE op \in {"search_card", "get_random_card", "get_exact_card"} -> CardOutcomes
      [] op = "search_cards" -> SearchOutcomes
      [] op = "get_card_rulings" -> IF n = 1 THEN NameOutcomes ELSE RulingOutcomes
      [] op = "get_all_sets" -> SetsOutcomes
      [] op = "get_card_symbols" -> SymbolsOutcomes
      [] op = "get_set_details" -> SetOutcomes
      [] op = "get_catalog" -> CatalogOutcomes

\* a complete answer to the n-th request of op
FullBody(op, n) ==
    CASE op \in {"search_card", "get_random_card", "get_exact_card"} -> FullCard
      [] op = "search_cards" ->
            [object |-> "list", data |-> <<FullCard>>, total_cards |-> 176,
             has_more |-> TRUE]
      [] op = "get_card_rulings" ->
            IF n = 1 THEN FullCard ELSE [object |-> "list", data |-> <<FullRuling>>]
      [] op = "get_all_sets" -> [object |-> "list", data |-> <<FullSet>>]
      [] op = "get_card_symbols" -> [object |-> "list", data |-> <<FullSymbol>>]
      [] op = "get_set_details" -> FullSet
      [] op = "get_catalog" -> [object |-> "catalog", data |-> <<"Elf">>]

\* the answers used when several calls run at once: the transport raising, an
\* error status (throttling for the card fetch of get_card_rulings, 404
\* elsewhere) and a complete 200 answer
FewAnswers(op, n) ==
    {Failure("ReadTimeout"),
     Response(IF op = "get_card_rulings" /\ n = 1 THEN 429 ELSE 404, TRUE, ErrorObject),
     Response(200, TRUE, FullBody(op, n))}

\* concurrent calls carry different inputs: slot c is called with its own name
NameOfCall(c) == CASE c = 1 -> "Bolt" [] c = 2 -> "Zzz" [] OTHER -> "Opt"
InputsOfCall(c, op) ==
    {i \in InputsNamed(op, {NameOfCall(c)}) :
        op = "get_exact_card" => i.set_code = "lea"}

(***************************************************************************)
(* State                                                                   *)
(***************************************************************************)
VARIABLES
    pc,          \* per call: "idle", "running", "awaiting", "done", "fault"
    step,        \* per call: index into Program(op) of the await it is at
    op,          \* per call: the tool invoked
    input_data,  \* per call: the handler's parameter
    card_name,   \* per call: the local card_name of get_card_rulings
    client,      \* per call: the AsyncClient instance it holds, 0 for none
    inflight,    \* per call: the requests issued and not yet answered
    log,         \* per call: its delays, requests and answers, in order
    received,    \* per call: the upstream answers it got, in order
    result       \* per call: the value the handler returned

vars == <<pc, step, op, input_data, card_name, client, inflight, log, received, result>>

NoResult == [none |-> TRUE]
NoRequest == [url |-> "", params |-> NoParams]
Event(ev, ms, req, status) == [ev |-> ev, ms |-> ms, req |-> req, status |-> status]

\* the statuses of the answers a call has got so far
Seen(c) == [i \in 1..Len(received[c]) |-> received[c][i].status]
\* the requests a call has issued so far
Sent(c) == SelectSeq(log[c], LAMBDA e : e.ev = "request")

Init ==
    /\ pc = [c \in CallIds |-> "idle"]
    /\ step = [c \in CallIds |-> 0]
    /\ op = [c \in CallIds |-> "none"]
    /\ input_data = [c \in CallIds |-> NoInput]
    /\ card_name = [c \in CallIds |-> None]
    /\ client = [c \in CallIds |-> 0]
    /\ inflight = [c \in CallIds |-> {}]
    /\ log = [c \in CallIds |-> <<>>]
    /\ received = [c \in CallIds |-> <<>>]
    /\ result = [c \in CallIds |-> NoResult]

\* the dispatcher starts handler o with parameter i: the handler opens its
\* client and enters the try block
Invoke(c, o, i) ==
    /\ pc[c] = "idle"
    /\ pc' = [pc EXCEPT ![c] = "running"]
    /\ step' = [step EXCEPT ![c] = 1]
    /\ op' = [op EXCEPT ![c] = o]
    /\ input_data' = [input_data EXCEPT ![c] = i]
    /\ client' = [client EXCEPT ![c] = AsyncClient(c)]
    /\ UNCHANGED <<card_name, inflight, log, received, result>>

\* await rate_limit() runs to completion
Sleep(c) ==
    /\ pc[c] = "running"
    /\ step[c] <= Len(Program(op[c]))
    /\ Program(op[c])[step[c]] = "rate_limit"
    /\ log' = [log EXCEPT ![c] = Append(@, Event("rate_limit", rate_limit(Seen(c)),
                                                 NoRequest, 0))]
    /\ step' = [step EXCEPT ![c] = @ + 1]
    /\ UNCHANGED <<pc, op, input_data, card_name, client, inflight, received, result>>

\* client.get(...) issues its request and the handler waits for the answer
Send(c) ==
    /\ pc[c] = "running"
    /\ step[c] <= Len(Program(op[c]))
    /\ Program(op[c])[step[c]] = "get"
    /\ LET req == Request(op[c], input_data[c], Len(Sent(c)) + 1)
       IN /\ inflight' = [inflight EXCEPT ![c] = @ \cup {req}]
          /\ log' = [log EXCEPT ![c] = Append(@, Event("request", 0, req, 0))]
    /\ pc' = [pc EXCEPT ![c] = "awaiting"]
    /\ UNCHANGED <<step, op, input_data, card_name, client, received, result>>

\* upstream answers o (or the transport raises) and the handler runs on to its
\* next await or to its return
Respond(c, o) ==
    /\ pc[c] = "awaiting"
    /\ LET last == step[c] = Len(Program(op[c]))
           t == IF last
                THEN Awaited(o, Try(op[c], input_data[c], card_name[c], o))
                ELSE card_fetch(o)
           out == Guarded(t, Except(op[c], input_data[c], t.exc))
       IN /\ inflight' = [inflight EXCEPT ![c] = {}]
          /\ received' = [received EXCEPT ![c] = Append(@, o)]
          /\ log' = [log EXCEPT ![c] =
                        Append(@, Event(IF o.kind = "raise" THEN "raise" ELSE "response",
                                        0, NoRequest, o.status))]
          /\ IF LeavesTry(last, t)
             THEN /\ pc' = [pc EXCEPT ![c] = IF out.raised THEN "fault" ELSE "done"]
                  /\ result' = [result EXCEPT ![c] =
                                   IF out.raised THEN NoResult ELSE out.value]
                  /\ UNCHANGED <<step, card_name>>
             ELSE /\ pc' = [pc EXCEPT ![c] = "running"]
                  /\ step' = [step EXCEPT ![c] = @ + 1]
                  /\ card_name' = [card_name EXCEPT ![c] = t.value]
                  /\ UNCHANGED result
    /\ UNCHANGED <<op, input_data, client>>

\* the client is closed and the value goes back to the dispatcher
Return(c) ==
    /\ pc[c] \in {"done", "fault"}
    /\ pc' = [pc EXCEPT ![c] = "idle"]
    /\ step' = [step EXCEPT ![c] = 0]
    /\ op' = [op EXCEPT ![c] = "none"]
    /\ input_data' = [input_data EXCEPT ![c] = NoInput]
    /\ card_name' = [card_name EXCEPT ![c] = None]
    /\ client' = [client EXCEPT ![c] = 0]
    /\ inflight' = [inflight EXCEPT ![c] = {}]
    /\ log' = [log EXCEPT ![c] = <<>>]
    /\ received' = [received EXCEPT ![c] = <<>>]
    /\ result' = [result EXCEPT ![c] = NoResult]

\* several calls at once, each with its own input
Next ==
    \/ \E c \in CallIds, o \in Ops : \E i \in InputsOfCall(c, o) : Invoke(c, o, i)
    \/ \E c \in CallIds : Sleep(c)
    \/ \E c \in CallIds : Send(c)
    \/ \E c \in CallIds :
          /\ pc[c] = "awaiting"
          /\ \E o \in FewAnswers(op[c], Len(received[c]) + 1) : Respond(c, o)
    \/ \E c \in CallIds : Return(c)

Spec == Init /\ [][Next]_vars

\* one call at a time, against every upstream answer
NextOne ==
    \/ \E o \in Ops : \E i \in Inputs(o) : Invoke(1, o, i)
    \/ Sleep(1)
    \/ Send(1)
    \/ /\ pc[1] = "awaiting"
       /\ \E o \in Answers(op[1], Len(received[1]) + 1) : Respond(1, o)
    \/ Return(1)

SpecOne == Init /\ [][NextOne]_vars

(***************************************************************************)
(* Vocabulary of the properties                                            *)
(***************************************************************************)
Done(c) == pc[c] = "done"
Active(c) == pc[c] # "idle"
LastAnswer(c) == received[c][Len(received[c])]
\* the number of client.get calls in a handler
Gets(o) == Len(SelectSeq(Program(o), LAMBDA x : x = "get"))
\* the call returned after the answer to its last request
AnsweredLast(c) == Done(c) /\ Len(received[c]) = Gets(op[c])

\* every str(e) a try body can hand to its except clause
Exceptions ==
    TransportErrors \cup {JSONDecodeError}
    \cup {HTTPStatusError(s) : s \in ErrorStatuses}
    \cup {KeyError(k) : k \in CardSubscripted}

\* the handler o run alone on parameter i against the answers as
RunAlone(o, i, as) ==
    CASE o = "search_card" -> search_card(i, as[1])
      [] o = "search_cards" -> search_cards(i, as[1])
      [] o = "get_card_rulings" ->
            get_card_rulings(i, as[1], IF Len(as) > 1 THEN as[2] ELSE as[1])
      [] o = "get_all_sets" -> get_all_sets(i, as[1])
      [] o = "get_card_symbols" -> get_card_symbols(i, as[1])
      [] o = "get_random_card" -> get_random_card(i, as[1])
      [] o = "get_set_details" -> get_set_details(i, as[1])
      [] o = "get_catalog" -> get_catalog(i, as[1])
      [] o = "get_exact_card" -> get_exact_card(i, as[1])

\* an outbound call failed: the transport raised, upstream answered 5xx, or
\* the body is not JSON
FailedAnswer(o) ==
    \/ o.kind = "raise"
    \/ o.status >= 500
    \/ (o.status = 200 /\ ~o.valid)
UpstreamFailed(c) == \E k \in 1..Len(received[c]) : FailedAnswer(received[c][k])

\* the payload says "this is an error"
ErrorMarked(r) ==
    \/ ("type_line" \in DOMAIN r /\ r.type_line = "Error")
    \/ ("card_name" \in DOMAIN r /\ r.card_name = "Error")
    \/ ("set_type" \in DOMAIN r /\ r.set_type = "error")
    \/ ("sets" \in DOMAIN r /\ \E k \in 1..Len(r.sets) : r.sets[k].set_type = "error")

\* the handlers with an `if response.status_code == 404` branch
HasNotFoundBranch ==
    {"search_card", "search_cards", "get_card_rulings", "get_set_details",
     "get_catalog", "get_exact_card"}
CardLookups == {"search_card", "get_exact_card"}

\* the call returned from its 404 branch
TookNotFoundBranch(c) ==
    /\ AnsweredLast(c)
    /\ op[c] \in HasNotFoundBranch
    /\ LastAnswer(c).kind = "response"
    /\ LastAnswer(c).status = 404

\* the call returned from its except clause because client.get raised
TransportRaised(c) == Done(c) /\ LastAnswer(c).kind = "raise"

(***************************************************************************)
(* C1                                                                      *)
(***************************************************************************)
\* C1: whenever an outbound call of a handler failed (exception, 5xx, body not
\* JSON), the handler returns a result whose payload marks it as an error, and
\* no exception leaves the handler.
C1_FailureGivesErrorSentinel ==
    \A c \in CallIds :
        /\ pc[c] # "fault"
        /\ (Done(c) /\ UpstreamFailed(c)) => ErrorMarked(result[c])

(***************************************************************************)
(* C2                                                                      *)
(***************************************************************************)
\* C2: for a handler with a 404 branch and an except clause, the result of the
\* 404 branch differs from every result the except clause returns for the same
\* input.
C2_NotFoundDiffersFromError ==
    \A c \in CallIds :
        TookNotFoundBranch(c) =>
            \A e \in Exceptions : result[c] # Except(op[c], input_data[c], e)

(***************************************************************************)
(* C3                                                                      *)
(***************************************************************************)
\* the name a card lookup was asked for
LookupName(c) ==
    IF op[c] = "search_card" THEN input_data[c].name ELSE input_data[c].exact_name

\* the "no such card" text of a card lookup
NotFoundText(c) ==
    IF op[c] = "search_card"
    THEN "No Magic: The Gathering card found with the name '" \o LookupName(c) \o "'"
    ELSE "No card found with exact name '" \o LookupName(c) \o "'"

\* C3 as stated: a card lookup answered 404 returns a sentinel whose image field
\* and oracle-text field are both empty.
C3_NotFoundFieldsEmpty ==
    \A c \in CallIds :
        (TookNotFoundBranch(c) /\ op[c] \in CardLookups) =>
            /\ result[c].type_line = "Not Found"
            /\ result[c].image_url \in {"", None}
            /\ result[c].oracle_text \in {"", None}

\* C3 amended: a card lookup answered 404 returns, whatever the body of the 404
\* answer, the one sentinel fixed by its input: type_line "Not Found", the name
\* "Card not found: <name>", an empty image field ("" for search_card, None for
\* get_exact_card) and an oracle-text field holding the "no card found" text.
C3_NotFoundSentinel ==
    \A c \in CallIds :
        (TookNotFoundBranch(c) /\ op[c] \in CardLookups) =>
            /\ result[c].type_line = "Not Found"
            /\ result[c].name = "Card not found: " \o LookupName(c)
            /\ result[c].image_url = (IF op[c] = "search_card" THEN "" ELSE None)
            /\ result[c].oracle_text = NotFoundText(c)
            /\ result[c].oracle_text \notin {"", None}

\* a card lookup returned from its 404 branch on a 404 answer without a JSON body
C3_Witness ==
    \E c \in CallIds :
        /\ TookNotFoundBranch(c)
        /\ op[c] = "get_exact_card"
        /\ ~LastAnswer(c).valid
        /\ result[c].type_line = "Not Found"

(***************************************************************************)
(* C4                                                                      *)
(***************************************************************************)
\* C4: the result returned for a caught exception carries str(e): for the same
\* input it differs from the result returned for any other exception.
C4_ExceptionTextCarried ==
    \A c \in CallIds :
        TransportRaised(c) =>
            \A e \in Exceptions \ {LastAnswer(c).exc} :
                result[c] # Except(op[c], input_data[c], e)

(***************************************************************************)
(* C5                                                                      *)
(***************************************************************************)
\* the call's last answer is a 200 with a JSON body
Succeeded(c) ==
    /\ AnsweredLast(c)
    /\ LastAnswer(c).kind = "response"
    /\ LastAnswer(c).status = 200
    /\ LastAnswer(c).valid

\* C5: a card lookup answered 200 with a card record returns that record's
\* non-empty name and its type line, which is neither "Not Found" nor "Error",
\* and the result equals neither the not-found sentinel nor any error sentinel.
C5_FoundCardIsNoSentinel ==
    \A c \in CallIds :
        (Succeeded(c) /\ op[c] \in CardLookups /\ IsCardRecord(LastAnswer(c).data)) =>
            /\ result[c].name = LastAnswer(c).data["name"]
            /\ result[c].name # ""
            /\ result[c].type_line = LastAnswer(c).data["type_line"]
            /\ result[c].type_line \notin {"Not Found", "Error"}
            /\ result[c].name # "Card not found: " \o LookupName(c)
            /\ \A e \in Exceptions : result[c] # Except(op[c], input_data[c], e)

\* a card lookup answered with a card record that has no optional field
C5_Witness ==
    \E c \in CallIds :
        /\ Succeeded(c)
        /\ op[c] = "search_card"
        /\ IsCardRecord(LastAnswer(c).data)
        /\ DOMAIN LastAnswer(c).data \cap CardOptional = {}
        /\ result[c].name = "Lightning Bolt"

(***************************************************************************)
(* C6                                                                      *)
(***************************************************************************)
\* the keys a handler subscripts are present in the answer
RequiredPresent(c) ==
    LET d == LastAnswer(c).data
        l == Get(d, "data", <<>>)
    IN CASE op[c] = "search_card" -> {"name", "type_line"} \subseteq DOMAIN d
         [] op[c] = "search_cards" ->
               \A k \in 1..Len(l) : {"name", "type_line", "id"} \subseteq DOMAIN l[k]
         [] OTHER -> TRUE

\* output r carries, for each key of keys, the value of record d or the default
FieldsOK(d, r, keys, default) ==
    \A k \in keys : r[k] = (IF k \in DOMAIN d THEN d[k] ELSE default)
\* output r carries the "normal" image of record d or the default
ImageOK(d, r, default) ==
    r.image_url = (IF "image_uris" \in DOMAIN d /\ "normal" \in DOMAIN d["image_uris"]
                   THEN d["image_uris"]["normal"] ELSE default)
\* output list rs has one entry per record of l, each with its optional fields
ListOK(l, rs, keys, default, withImage) ==
    /\ Len(rs) = Len(l)
    /\ \A k \in 1..Len(l) :
          /\ FieldsOK(l[k], rs[k], keys, default)
          /\ withImage => ImageOK(l[k], rs[k], default)

\* C6: a 200 answer in which any subset of the optional fields is absent gives
\* the normal success result: it is no error sentinel, every absent optional
\* field holds its default ("No oracle text available" and "" in search_card,
\* None elsewhere), every present one its value, and a list keeps all records.
C6_OptionalFieldsDefault ==
    \A c \in CallIds :
        (Succeeded(c) /\ RequiredPresent(c)) =>
            LET d == LastAnswer(c).data
                l == Get(d, "data", <<>>)
                r == result[c]
            IN /\ ~ErrorMarked(r)
               /\ CASE op[c] = "search_card" ->
                         /\ FieldsOK(d, r, {"oracle_text"}, "No oracle text available")
                         /\ ImageOK(d, r, "")
                    [] op[c] \in {"get_random_card", "get_exact_card"} ->
                         /\ FieldsOK(d, r, {"oracle_text", "mana_cost", "cmc"}, None)
                         /\ ImageOK(d, r, None)
                    [] op[c] = "search_cards" ->
                         ListOK(l, r.cards, {"oracle_text", "mana_cost", "cmc"}, None, TRUE)
                    [] op[c] = "get_all_sets" ->
                         ListOK(l, r.sets, {"released_at"}, None, FALSE)
                    [] op[c] = "get_card_symbols" ->
                         ListOK(l, r.symbols, SymbolOptional, None, FALSE)
                    [] op[c] = "get_set_details" -> FieldsOK(d, r, SetOptional, None)
                    [] op[c] = "get_card_rulings" -> Len(r.rulings) = Len(l)
                    [] op[c] = "get_catalog" -> r.data = l

\* a search answered with two records, the first without any optional field
C6_Witness ==
    \E c \in CallIds :
        /\ Succeeded(c)
        /\ op[c] = "search_cards"
        /\ "data" \in DOMAIN LastAnswer(c).data
        /\ Len(LastAnswer(c).data["data"]) = 2
        /\ DOMAIN LastAnswer(c).data["data"][1] \cap CardOptional = {}
        /\ RequiredPresent(c)
        /\ Len(result[c].cards) = 2
        /\ result[c].cards[1].oracle_text = None

(***************************************************************************)
(* C7                                                                      *)
(***************************************************************************)
\* C7: under any interleaving of concurrent calls, a call's result is the one
\* its handler gives when run alone on the same parameter against the same
\* answers; calls that are active together hold different client instances,
\* and a call that has returned leaves nothing behind.
C7_CallsDoNotInterfere ==
    /\ \A c \in CallIds :
          Done(c) => result[c] = RunAlone(op[c], input_data[c], received[c]).value
    /\ \A c \in CallIds : Active(c) => client[c] # 0
    /\ \A c, d \in CallIds : (c # d /\ Active(c) /\ Active(d)) => client[c] # client[d]
    /\ \A c \in CallIds :
          ~Active(c) => /\ client[c] = 0
                        /\ card_name[c] = None
                        /\ result[c] = NoResult

\* two get_card_rulings calls for different cards ran at the same time and got
\* different answers to their card fetches
C7_Witness ==
    \E c, d \in CallIds :
        /\ c # d
        /\ Done(c) /\ Done(d)
        /\ op[c] = "get_card_rulings" /\ op[d] = "get_card_rulings"
        /\ input_data[c] # input_data[d]
        /\ Len(received[c]) = 2 /\ Len(received[d]) = 2
        /\ result[c].card_name = "Lightning Bolt"
        /\ result[d].card_name = "Unknown Card"

(***************************************************************************)
(* C8                                                                      *)
(***************************************************************************)
\* C8: in every call, the event just before each outbound request is a
\* completed rate_limit delay (so it was slept after the previous request and
\* its answer), and every delay lasts RateLimitDelay whatever was answered.
C8_DelayBeforeEveryRequest ==
    \A c \in CallIds :
        \A k \in 1..Len(log[c]) :
            /\ log[c][k].ev = "request" =>
                  /\ k > 1
                  /\ log[c][k - 1].ev = "rate_limit"
            /\ log[c][k].ev = "rate_limit" => log[c][k].ms = RateLimitDelay

\* a get_card_rulings call was throttled on its card fetch and has issued its
\* rulings request
C8_Witness ==
    \E c \in CallIds :
        /\ op[c] = "get_card_rulings"
        /\ Len(received[c]) >= 1
        /\ received[c][1].status = 429
        /\ Len(Sent(c)) = 2

(***************************************************************************)
(* C9                                                                      *)
(***************************************************************************)
\* C9: a call issues at most two requests and has at most one in flight; a
\* second request is issued only by get_card_rulings, only after the first was
\* answered, and is the rulings fetch after the card fetch; a returned call of
\* any other handler issued exactly one, and get_card_rulings issued two
\* unless its card fetch raised.
C9_AtMostTwoSequentialRequests ==
    \A c \in CallIds :
        LET sent == Sent(c)
        IN /\ Len(sent) <= 2
           /\ Cardinality(inflight[c]) <= 1
           /\ Len(sent) <= Len(received[c]) + 1
           /\ Len(sent) = 2 =>
                 /\ op[c] = "get_card_rulings"
                 /\ sent[1].req.url = API \o "/cards/" \o input_data[c].scryfall_id
                 /\ sent[2].req.url =
                       API \o "/cards/" \o input_data[c].scryfall_id \o "/rulings"
           /\ (Done(c) /\ op[c] # "get_card_rulings") => Len(sent) = 1
           /\ (Done(c) /\ op[c] = "get_card_rulings") =>
                 Len(sent) = (IF card_fetch(received[c][1]).raised THEN 1 ELSE 2)

\* a get_card_rulings call returned after two requests while another handler
\* returned after one
C9_Witness ==
    \E c, d \in CallIds :
        /\ Done(c) /\ op[c] = "get_card_rulings" /\ Len(Sent(c)) = 2
        /\ Done(d) /\ op[d] = "get_all_sets" /\ Len(Sent(d)) = 1

(***************************************************************************)
(* C10                                                                     *)
(***************************************************************************)
\* C10: within a call no request (URL and parameters) is issued twice; once a
\* client.get raised, the call issues no further request and has returned its
\* result; no exception leaves a handler.
C10_NothingRetried ==
    \A c \in CallIds :
        LET sent == Sent(c)
        IN /\ \A j, k \in 1..Len(sent) : j # k => sent[j].req # sent[k].req
           /\ \A k \in 1..Len(log[c]) :
                 log[c][k].ev = "raise" => (k = Len(log[c]) /\ Done(c))
           /\ pc[c] # "fault"

\* the card fetch of a get_card_rulings call raised and the call returned its
\* error result without asking for the rulings
C10_Witness ==
    \E c \in CallIds :
        /\ Done(c)
        /\ op[c] = "get_card_rulings"
        /\ Len(log[c]) = 3
        /\ log[c][3].ev = "raise"
        /\ result[c].card_name = "Error"

(***************************************************************************)
(* C11                                                                     *)
(***************************************************************************)
\* C11: a get_catalog call answered 404 returns the requested catalog_type, an
\* empty data list and total_items 0, and no get_catalog call ends with an
\* exception leaving the handler.
C11_UnknownCatalogIsEmpty ==
    \A c \in CallIds :
        op[c] = "get_catalog" =>
            /\ pc[c] # "fault"
            /\ TookNotFoundBranch(c) =>
                  /\ result[c].catalog_type = input_data[c].catalog_type
                  /\ result[c].data = <<>>
                  /\ result[c].total_items = 0

\* a get_catalog call for "Zzz" returned from its 404 branch
C11_Witness ==
    \E c \in CallIds :
        /\ op[c] = "get_catalog"
        /\ TookNotFoundBranch(c)
        /\ LastAnswer(c).valid
        /\ input_data[c].catalog_type = "Zzz"
        /\ result[c].catalog_type = "Zzz"

(***************************************************************************)
(* C12                                                                     *)
(***************************************************************************)
\* C12: every result of get_all_sets, get_card_symbols and get_catalog, on the
\* success path, the 404 path and the exception path, has its count field equal
\* to the length of its list.
C12_CountEqualsLength ==
    \A c \in CallIds :
        Done(c) =>
            /\ op[c] = "get_all_sets" => result[c].total_sets = Len(result[c].sets)
            /\ op[c] = "get_card_symbols" =>
                  result[c].total_symbols = Len(result[c].symbols)
            /\ op[c] = "get_catalog" => result[c].total_items = Len(result[c].data)
====
